---- MODULE Spec2Model ----
(***************************************************************************)
(* Model of scripts/load_merge.py: the three road-safety extracts          *)
(* (collisions, vehicles, casualties) are read, their headers normalised,  *)
(* the collision date parsed, the casualties left-joined to the vehicle    *)
(* keys and to the collisions, and a tidy column subset written out.       *)
(*                                                                         *)
(* A DataFrame is [columns |-> sequence of names, rows |-> sequence of     *)
(* rows], a row being a function from the column names to cells.  A cell   *)
(* is a record [t, d]: t a text and d a tuple of integers, so that any two *)
(* cells can be compared.                                                  *)
(***************************************************************************)
EXTENDS Integers, Sequences, FiniteSets, TLC

VARIABLES files, pc, acc, veh, cas, date_col, joined, tidy, out

vars == <<files, pc, acc, veh, cas, date_col, joined, tidy, out>>

Range(s) == {s[i] : i \in 1..Len(s)}

RECURSIVE Flatten(_)
Flatten(ss) == IF ss = <<>> THEN <<>> ELSE Head(ss) \o Flatten(Tail(ss))

(***************************************************************************)
(* Cells.                                                                  *)
(***************************************************************************)
\* NaN / NaT / None inside a frame
Null == [t |-> "NaN", d |-> <<>>]
\* a text value
StrCell(s) == [t |-> s, d |-> <<>>]
\* an integer value
IntCell(n) == [t |-> "int", d |-> <<n>>]
\* a parsed datetime64 value
Timestamp(y, m, dd) == [t |-> "Timestamp", d |-> <<y, m, dd>>]
\* the text "a/b/c", e.g. SlashText(31, 12, 2020) is "31/12/2020"
SlashText(a, b, c) == [t |-> "a/b/c", d |-> <<a, b, c>>]
\* the text "y-m-d", e.g. IsoText(2020, 12, 31) is "2020-12-31"
IsoText(y, m, dd) == [t |-> "y-m-d", d |-> <<y, m, dd>>]
\* the value the file of table tb holds in row i under column c: distinct for
\* distinct table, row and column, so a cell of a result names its origin
Val(tb, i, c) == [t |-> tb \o "." \o c, d |-> <<i>>]

\* the absent marker of Python (date_col, entries of keep_cols)
None == "<None>"

EmptyFrame == [columns |-> <<>>, rows |-> <<>>]

(***************************************************************************)
(* Header normalisation.  A raw header is a sequence of tokens: a token is *)
(* a run of blanks " ", an underscore "_" or a word.                       *)
(***************************************************************************)
\* str.lower() on a word: the capitalised words the raw headers use
LowerTable ==
    [Accident |-> "accident", Index |-> "index", Vehicle |-> "vehicle",
     Reference |-> "reference", Date |-> "date", Severity |-> "severity",
     Casualty |-> "casualty", Type |-> "type", Year |-> "year", Month |-> "month",
     Speed |-> "speed", Limit |-> "limit", Class |-> "class"]

lower(tok) == IF tok \in DOMAIN LowerTable THEN LowerTable[tok] ELSE tok

RECURSIVE lstrip(_)
lstrip(toks) ==
    IF toks # <<>> /\ Head(toks) = " " THEN lstrip(Tail(toks)) ELSE toks

RECURSIVE rstrip(_)
rstrip(toks) ==
    IF toks # <<>> /\ toks[Len(toks)] = " "
    THEN rstrip(SubSeq(toks, 1, Len(toks) - 1)) ELSE toks

strip(toks) == rstrip(lstrip(toks))

\* str.replace(" ", "_") followed by reading the tokens as one text
RECURSIVE replace_join(_)
replace_join(toks) ==
    IF toks = <<>> THEN ""
    ELSE (IF Head(toks) = " " THEN "_" ELSE Head(toks)) \o replace_join(Tail(toks))

\* c.strip().lower().replace(" ", "_")
normalise_name(raw) ==
    replace_join([i \in 1..Len(strip(raw)) |-> lower(strip(raw)[i])])

\* df.rename(columns={c: ... for c in df.columns})
normalise_cols(df) ==
    LET new == [i \in 1..Len(df.columns) |-> normalise_name(df.columns[i])]
        old(n) == CHOOSE c \in Range(df.columns) : normalise_name(c) = n
    IN  [columns |-> new,
         rows |-> [i \in 1..Len(df.rows) |->
                     [n \in Range(new) |-> df.rows[i][old(n)]]]]

\* pd.read_csv(path, engine="pyarrow"): the table the file holds
read_csv_fast(file) == file

(***************************************************************************)
(* Frames.                                                                 *)
(***************************************************************************)
\* df[name] = values: replaces the column in place, or appends a new one
SetColumn(df, name, values) ==
    [columns |-> IF name \in Range(df.columns) THEN df.columns
                 ELSE Append(df.columns, name),
     rows |-> [i \in 1..Len(df.rows) |->
                 [c \in Range(df.columns) \cup {name} |->
                     IF c = name THEN values[i] ELSE df.rows[i][c]]]]

\* df[cols]: the columns cols, in that order (all of them columns of df)
Select(df, cols) ==
    [columns |-> cols,
     rows |-> [i \in 1..Len(df.rows) |-> [c \in Range(cols) |-> df.rows[i][c]]]]

\* df.rename(columns={old: new})
Rename(df, old, new) ==
    LET nm(c) == IF c = old THEN new ELSE c
    IN  [columns |-> [i \in 1..Len(df.columns) |-> nm(df.columns[i])],
         rows |-> [i \in 1..Len(df.rows) |->
                     [n \in {nm(c) : c \in Range(df.columns)} |->
                         df.rows[i][CHOOSE c \in Range(df.columns) : nm(c) = n]]]]

(***************************************************************************)
(* DataFrame.merge(right, how="left", left_on=on, right_on=on, suffixes):  *)
(* the key columns carry the same names on both sides, so the result holds *)
(* them once; a non-key name on both sides takes the side's suffix.        *)
(***************************************************************************)
\* the right frame's columns that are not keys
RightCols(right, on) ==
    LET NotKey(c) == c \notin Range(on) IN SelectSeq(right.columns, NotKey)

\* the non-key names found on both sides
Overlap(left, right, on) == Range(left.columns) \cap Range(RightCols(right, on))

\* merge raises: a key that is no column (KeyError), or overlapping names
\* with both suffixes empty (ValueError)
MergeRaises(left, right, on, lsuffix, rsuffix) ==
    \/ ~(Range(on) \subseteq Range(left.columns))
    \/ ~(Range(on) \subseteq Range(right.columns))
    \/ (Overlap(left, right, on) # {} /\ lsuffix = "" /\ rsuffix = "")

\* suffixes never applied: both sides keep the overlapping name
Unsuffixed(c, overlap, suffix) == c

Suffixed(c, overlap, suffix) == IF c \in overlap THEN c \o suffix ELSE c

\* keys that never compare equal (text against number): nothing matches
MatchesNone(l, right, on) == <<>>

\* the right rows whose keys equal those of the left row l, in right order
Matches(l, right, on) ==
    LET Hit(r) == \A k \in Range(on) : r[k] = l[k] IN SelectSeq(right.rows, Hit)

\* the result rows a left row l gives: one per matching right row, or one
\* with the right side null when there is none (how="left")
MergedRows(l, matches, lnames, rnames, lcols, rcols) ==
    LET Row(r, matched) ==
            [n \in Range(lnames) \cup Range(rnames) |->
                IF n \in Range(lnames)
                THEN l[lcols[CHOOSE i \in 1..Len(lcols) : lnames[i] = n]]
                ELSE IF matched
                     THEN r[rcols[CHOOSE i \in 1..Len(rcols) : rnames[i] = n]]
                     ELSE Null]
    IN  IF matches = <<>> THEN << Row(l, FALSE) >>
        ELSE [j \in 1..Len(matches) |-> Row(matches[j], TRUE)]

\* how="inner": a left row without a match gives no row
InnerMerge(left, right, on, lsuffix, rsuffix) ==
    LET rcols == RightCols(right, on)
        ov == Overlap(left, right, on)
        lnames == [i \in 1..Len(left.columns) |-> Suffixed(left.columns[i], ov, lsuffix)]
        rnames == [i \in 1..Len(rcols) |-> Suffixed(rcols[i], ov, rsuffix)]
        Rows(l) == IF Matches(l, right, on) = <<>> THEN <<>>
                   ELSE MergedRows(l, Matches(l, right, on), lnames, rnames,
                                   left.columns, rcols)
    IN  [columns |-> lnames \o rnames,
         rows |-> Flatten([i \in 1..Len(left.rows) |-> Rows(left.rows[i])])]

LeftMerge(left, right, on, lsuffix, rsuffix) ==
    LET rcols == RightCols(right, on)
        ov == Overlap(left, right, on)
        lnames == [i \in 1..Len(left.columns) |-> Suffixed(left.columns[i], ov, lsuffix)]
        rnames == [i \in 1..Len(rcols) |-> Suffixed(rcols[i], ov, rsuffix)]
    IN  [columns |-> lnames \o rnames,
         rows |-> Flatten([i \in 1..Len(left.rows) |->
                     MergedRows(left.rows[i], Matches(left.rows[i], right, on),
                                lnames, rnames, left.columns, rcols)])]

(***************************************************************************)
(* pd.to_datetime(series, errors="coerce", dayfirst=True).                 *)
(***************************************************************************)
IsLeap(y) == (y % 4 = 0 /\ y % 100 # 0) \/ y % 400 = 0

DaysInMonth(y, m) ==
    IF m = 2 THEN (IF IsLeap(y) THEN 29 ELSE 28)
    ELSE IF m \in {4, 6, 9, 11} THEN 30 ELSE 31

ValidDate(y, m, dd) == m \in 1..12 /\ dd \in 1..DaysInMonth(y, m)

DayFirstFormat == "%d/%m/%Y"
MonthFirstFormat == "%m/%d/%Y"
IsoFormat == "%Y-%m-%d"

\* one text parsed on its own: day first where that is a date, month first
\* where only that is (dayfirst is a preference, not strict), NaT otherwise
ParseElement(x) ==
    IF x.t = "a/b/c"
    THEN IF ValidDate(x.d[3], x.d[2], x.d[1]) THEN Timestamp(x.d[3], x.d[2], x.d[1])
         ELSE IF ValidDate(x.d[3], x.d[1], x.d[2]) THEN Timestamp(x.d[3], x.d[1], x.d[2])
         ELSE Null
    ELSE IF x.t = "y-m-d" /\ ValidDate(x.d[1], x.d[2], x.d[3])
         THEN Timestamp(x.d[1], x.d[2], x.d[3])
         ELSE Null

\* the format guessed from one text (None when it is no date)
GuessFormat(x) ==
    IF x.t = "a/b/c"
    THEN IF ValidDate(x.d[3], x.d[2], x.d[1]) THEN DayFirstFormat
         ELSE IF ValidDate(x.d[3], x.d[1], x.d[2]) THEN MonthFirstFormat
         ELSE None
    ELSE IF x.t = "y-m-d" /\ ValidDate(x.d[1], x.d[2], x.d[3]) THEN IsoFormat
         ELSE None

\* one text parsed with a given format; a text that does not match it is NaT
ParseWithFormat(x, fmt) ==
    IF fmt = DayFirstFormat /\ x.t = "a/b/c" /\ ValidDate(x.d[3], x.d[2], x.d[1])
    THEN Timestamp(x.d[3], x.d[2], x.d[1])
    ELSE IF fmt = MonthFirstFormat /\ x.t = "a/b/c" /\ ValidDate(x.d[3], x.d[1], x.d[2])
    THEN Timestamp(x.d[3], x.d[1], x.d[2])
    ELSE IF fmt = IsoFormat /\ x.t = "y-m-d" /\ ValidDate(x.d[1], x.d[2], x.d[3])
    THEN Timestamp(x.d[1], x.d[2], x.d[3])
    ELSE Null

\* the whole column.  The pandas release is not pinned by the repository:
\* from 2.0 on (consistent) the format guessed from the first non-null text
\* is applied to every row, and each text is parsed on its own only when no
\* format can be guessed; before 2.0 each text is parsed on its own.
to_datetime(values, consistent) ==
    LET nonnull == {i \in 1..Len(values) : values[i] # Null}
        first == CHOOSE i \in nonnull : \A j \in nonnull : i <= j
        fmt == IF nonnull = {} THEN None ELSE GuessFormat(values[first])
    IN  IF consistent /\ fmt # None
        THEN [i \in 1..Len(values) |-> ParseWithFormat(values[i], fmt)]
        ELSE [i \in 1..Len(values) |-> ParseElement(values[i])]

\* Series.dt.year
dt_year(ts) == IF ts = Null THEN Null ELSE IntCell(ts.d[1])

\* Series.dt.to_period("M").dt.to_timestamp(): the first day of the month
dt_month_start(ts) == IF ts = Null THEN Null ELSE Timestamp(ts.d[1], ts.d[2], 1)
(***************************************************************************)
(* main(): the key columns and the steps of the pipeline.                  *)
(***************************************************************************)
acc_id == "accident_index"
veh_id == "accident_index"
veh_ref == "vehicle_reference"
cas_id == "accident_index"
cas_ref == "vehicle_reference"

\* next((c for c in acc.columns if c in ["date", "accident_date"]), None)
ResolveDateCol(columns) ==
    LET hits == {i \in 1..Len(columns) : columns[i] \in {"date", "accident_date"}}
    IN  IF hits = {} THEN None
        ELSE columns[CHOOSE i \in hits : \A j \in hits : i <= j]

\* the date column parsed, and year and month derived from it
DeriveDates(df, col, consistent) ==
    LET parsed == to_datetime([i \in 1..Len(df.rows) |-> df.rows[i][col]], consistent)
        a1 == SetColumn(df, col, parsed)
        a2 == SetColumn(a1, "year", [i \in 1..Len(parsed) |-> dt_year(parsed[i])])
    IN  SetColumn(a2, "month", [i \in 1..Len(parsed) |-> dt_month_start(parsed[i])])

\* year and month always created, null when no date column resolves
TypeFixedAlways(df, col, consistent) ==
    IF col # None THEN DeriveDates(df, col, consistent)
    ELSE SetColumn(SetColumn(df, "year", [i \in 1..Len(df.rows) |-> Null]),
                   "month", [i \in 1..Len(df.rows) |-> Null])

\* if date_col: ... (nothing is derived when no date column resolves)
TypeFixed(df, col, consistent) ==
    IF col # None THEN DeriveDates(df, col, consistent) ELSE df

\* "name" if "name" in joined.columns else None
Optional(name, columns) == IF name \in Range(columns) THEN name ELSE None

\* the keep_cols list as first written (entries may be None or absent names)
KeepCandidates(columns, col) ==
    << cas_id, cas_ref,
       IF "severity" \in Range(columns) THEN "severity" ELSE "casualty_severity",
       "casualty_class", "sex_of_casualty", "age_band_of_casualty",
       Optional("sex_of_driver", columns),
       Optional("age_band_of_driver", columns),
       Optional("vehicle_type", columns),
       col, "year", "month",
       "light_conditions", "weather_conditions", "road_type", "speed_limit",
       Optional("local_authority_(district)", columns),
       Optional("police_force", columns),
       Optional("number_of_vehicles", columns),
       Optional("number_of_casualties", columns),
       Optional("longitude", columns),
       Optional("latitude", columns) >>

\* keep_cols = [c for c in keep_cols if c and c in joined.columns]
KeepCols(columns, col) ==
    LET Kept(c) == c # None /\ c \in Range(columns)
    IN  SelectSeq(KeepCandidates(columns, col), Kept)

\* the optional fields of keep_cols
OptionalFields ==
    {"sex_of_driver", "age_band_of_driver", "vehicle_type",
     "local_authority_(district)", "police_force", "number_of_vehicles",
     "number_of_casualties", "longitude", "latitude"}

\* joined.reindex(columns=...): an optional field that is no column of the
\* joined table is created, filled with nulls
TidyWithPlaceholders(df, col) ==
    LET kept == KeepCols(df.columns, col)
        Absent(c) == c \in OptionalFields /\ c \notin Range(df.columns)
        extra == SelectSeq(<<"sex_of_driver", "age_band_of_driver", "vehicle_type",
                             "local_authority_(district)", "police_force",
                             "number_of_vehicles", "number_of_casualties",
                             "longitude", "latitude">>, Absent)
    IN  [columns |-> kept \o extra,
         rows |-> [i \in 1..Len(df.rows) |->
                     [c \in Range(kept) \cup Range(extra) |->
                         IF c \in Range(kept) THEN df.rows[i][c] ELSE Null]]]

\* tidy = joined[keep_cols].copy()
TidySubset(df, col) == Select(df, KeepCols(df.columns, col))

\* the target column under its standard name
StandardiseTarget(df) ==
    IF "casualty_severity" \in Range(df.columns) /\ "severity" \notin Range(df.columns)
    THEN Rename(df, "casualty_severity", "severity")
    ELSE df

\* veh[[veh_id, veh_ref]] raises KeyError when a key is no column of veh
VehKeysMissing(df) == ~({veh_id, veh_ref} \subseteq Range(df.columns))

VehKeys(df) == Select(df, <<veh_id, veh_ref>>)

Load ==
    /\ pc = "load"
    /\ acc' = normalise_cols(read_csv_fast(files.acc))
    /\ veh' = normalise_cols(read_csv_fast(files.veh))
    /\ cas' = normalise_cols(read_csv_fast(files.cas))
    /\ pc' = "dates"
    /\ UNCHANGED <<files, date_col, joined, tidy, out>>

TypeFixes ==
    /\ pc = "dates"
    /\ date_col' = ResolveDateCol(acc.columns)
    /\ \E consistent \in BOOLEAN : acc' = TypeFixed(acc, date_col', consistent)
    /\ pc' = "join_veh"
    /\ UNCHANGED <<files, veh, cas, joined, tidy, out>>

JoinVehicles ==
    /\ pc = "join_veh"
    /\ IF VehKeysMissing(veh)
          \/ MergeRaises(cas, VehKeys(veh), <<cas_id, cas_ref>>, "", "")
       THEN pc' = "failed" /\ UNCHANGED cas
       ELSE /\ cas' = LeftMerge(cas, VehKeys(veh), <<cas_id, cas_ref>>, "", "")
            /\ pc' = "join_acc"
    /\ UNCHANGED <<files, acc, veh, date_col, joined, tidy, out>>

JoinAccidents ==
    /\ pc = "join_acc"
    /\ IF MergeRaises(cas, acc, <<cas_id>>, "_cas", "_acc")
       THEN pc' = "failed" /\ UNCHANGED joined
       ELSE /\ joined' = LeftMerge(cas, acc, <<cas_id>>, "_cas", "_acc")
            /\ pc' = "project"
    /\ UNCHANGED <<files, acc, veh, cas, date_col, tidy, out>>

Project ==
    /\ pc = "project"
    /\ tidy' = TidySubset(joined, date_col)
    /\ pc' = "rename"
    /\ UNCHANGED <<files, acc, veh, cas, date_col, joined, out>>

RenameTarget ==
    /\ pc = "rename"
    /\ tidy' = StandardiseTarget(tidy)
    /\ pc' = "save"
    /\ UNCHANGED <<files, acc, veh, cas, date_col, joined, out>>

Save ==
    /\ pc = "save"
    /\ out' = tidy
    /\ pc' = "done"
    /\ UNCHANGED <<files, acc, veh, cas, date_col, joined, tidy>>

Next ==
    \/ Load
    \/ TypeFixes
    \/ JoinVehicles
    \/ JoinAccidents
    \/ Project
    \/ RenameTarget
    \/ Save
(***************************************************************************)
(* The inputs: the three files of a release.  Headers are written in one   *)
(* of three styles; key cells hold the keys, date cells a text, and every  *)
(* other cell a value that names its table, row and column.                *)
(***************************************************************************)
MaxCas == 2
MaxVeh == 2
MaxDates == 2

Words ==
    [accident_index |-> <<"accident", "index">>,
     vehicle_reference |-> <<"vehicle", "reference">>,
     date |-> <<"date">>,
     accident_date |-> <<"accident", "date">>,
     severity |-> <<"severity">>,
     casualty_severity |-> <<"casualty", "severity">>,
     casualty_class |-> <<"casualty", "class">>,
     vehicle_type |-> <<"vehicle", "type">>,
     year |-> <<"year">>,
     month |-> <<"month">>,
     speed_limit |-> <<"speed", "limit">>]

Capital(w) == CHOOSE u \in DOMAIN LowerTable : LowerTable[u] = w

RECURSIVE Interleave(_, _)
Interleave(ws, sep) ==
    IF Len(ws) <= 1 THEN ws ELSE <<Head(ws), sep>> \o Interleave(Tail(ws), sep)

HeaderStyles == {"snake", "Title", "padded"}
ReleaseStyles == {"Title", "padded"}

\* "accident_index", "Accident Index", " accident_index "
Header(name, style) ==
    LET ws == Words[name]
    IN  IF style = "Title"
        THEN Interleave([i \in 1..Len(ws) |-> Capital(ws[i])], " ")
        ELSE IF style = "padded"
        THEN <<" ">> \o Interleave(ws, "_") \o <<" ">>
        ELSE Interleave(ws, "_")

\* the file of table tb: names are its columns, keys[i] the keys of row i and
\* dates[i] the text of the date columns of row i
File(tb, names, style, keys, dates) ==
    LET cell(i, c) ==
            IF c = "accident_index" THEN StrCell(keys[i][1])
            ELSE IF c = "vehicle_reference" /\ tb # "acc" THEN IntCell(keys[i][2])
            ELSE IF c \in {"date", "accident_date"} /\ tb = "acc" THEN dates[i]
            ELSE Val(tb, i, c)
    IN  [columns |-> [j \in 1..Len(names) |-> Header(names[j], style)],
         rows |-> [i \in 1..Len(keys) |->
                     [h \in {Header(n, style) : n \in Range(names)} |->
                         cell(i, CHOOSE n \in Range(names) : Header(n, style) = h)]]]

\* the sub-sequences of a sequence of distinct names
SubSeqs(pool) ==
    {LET In(c) == c \in S IN SelectSeq(pool, In) : S \in SUBSET Range(pool)}

\* the non-empty sequences over S of length at most n
SeqsUpTo(S, n) == UNION {[1..k -> S] : k \in 1..n}

NotADate == StrCell("not-a-date")

\* the end-to-end scenario: collisions A1 and A2, vehicles A1/1 and A2/1,
\* casualties A1/1, A1/2 and A2/1
ScenarioCas == << <<"A1", 1>>, <<"A1", 2>>, <<"A2", 1>> >>
ScenarioVeh == << <<"A1", 1>>, <<"A2", 1>> >>
ScenarioAcc == << <<"A1", 0>>, <<"A2", 0>> >>
ScenarioDates == << SlashText(31, 12, 2020), NotADate >>

CasSchemas ==
    {<<"accident_index", "vehicle_reference">> \o x :
        x \in SubSeqs(<<"severity", "casualty_severity", "vehicle_type", "year", "date">>)}
    \cup {<<"accident_index", "casualty_severity">>}

VehSchemas ==
    {<<"accident_index", "vehicle_reference">>,
     <<"accident_index", "vehicle_reference", "vehicle_type">>}

DateOrders ==
    {<<>>, <<"date">>, <<"accident_date">>,
     <<"date", "accident_date">>, <<"accident_date", "date">>}

AccSchemas ==
    {<<"accident_index">> \o o \o x :
        o \in DateOrders, x \in SubSeqs(<<"severity", "vehicle_reference", "year">>)}
    \cup {<<"date", "speed_limit">>}

Start ==
    /\ pc = "load"
    /\ acc = EmptyFrame /\ veh = EmptyFrame /\ cas = EmptyFrame
    /\ joined = EmptyFrame /\ tidy = EmptyFrame /\ out = EmptyFrame
    /\ date_col = None

\* releases that differ in their headers, with the rows of the scenario
Init ==
    /\ Start
    /\ \E cs \in CasSchemas, vs \in VehSchemas, as \in AccSchemas, st \in ReleaseStyles :
          files = [cas |-> File("cas", cs, st, ScenarioCas, ScenarioDates),
                   veh |-> File("veh", vs, st, ScenarioVeh, ScenarioDates),
                   acc |-> File("acc", as, st, ScenarioAcc, ScenarioDates)]

Spec == Init /\ [][Next]_vars

\* releases with one set of headers that differ in their rows
KeySet == {"A1", "A2"} \X {1, 2}
VehKeySet == {<<"A1", 1>>, <<"A2", 1>>, <<"A1", 2>>}
AccKeyLists ==
    {<< <<"A1", 0>> >>, << <<"A1", 0>>, <<"A2", 0>> >>, << <<"A1", 0>>, <<"A1", 0>> >>}

InitRows ==
    /\ Start
    /\ \E ck \in SeqsUpTo(KeySet, MaxCas) \cup {ScenarioCas}, vk \in SeqsUpTo(VehKeySet, MaxVeh),
          ak \in AccKeyLists :
          files = [cas |-> File("cas", <<"accident_index", "vehicle_reference",
                                         "casualty_severity", "casualty_class">>,
                                "snake", ck, <<>>),
                   veh |-> File("veh", <<"accident_index", "vehicle_reference",
                                         "vehicle_type">>, "snake", vk, <<>>),
                   acc |-> File("acc", <<"accident_index", "date", "speed_limit",
                                         "casualty_class">>, "snake", ak,
                                [i \in 1..Len(ak) |-> SlashText(31, 12, 2020)])]

SpecRows == InitRows /\ [][Next]_vars

\* releases that differ in the texts of the collision date column
DateTexts ==
    {SlashText(31, 12, 2020), SlashText(1, 2, 2021), SlashText(12, 13, 2020),
     SlashText(31, 2, 2020), IsoText(2020, 12, 31), NotADate}

\* "A1", "A2", ...
AccidentId(i) == "A" \o ToString(i)

InitDates ==
    /\ Start
    /\ \E ds \in SeqsUpTo(DateTexts, MaxDates), dc \in {"date", "accident_date"} :
          files = [cas |-> File("cas", <<"accident_index", "vehicle_reference",
                                         "casualty_severity">>,
                                "snake", [i \in 1..Len(ds) |-> <<AccidentId(i), 1>>], <<>>),
                   veh |-> File("veh", <<"accident_index", "vehicle_reference">>,
                                "snake", << <<"A1", 1>> >>, <<>>),
                   acc |-> File("acc", <<"accident_index", dc>>, "Title",
                                [i \in 1..Len(ds) |-> <<AccidentId(i), 0>>], ds)]

SpecDates == InitDates /\ [][Next]_vars
(***************************************************************************)
(* The normalised tables as loaded, before any later step touches them.    *)
(***************************************************************************)
CasIn == normalise_cols(read_csv_fast(files.cas))
VehIn == normalise_cols(read_csv_fast(files.veh))
AccIn == normalise_cols(read_csv_fast(files.acc))

Cols(df) == Range(df.columns)
Rows(df) == 1..Len(df.rows)

Joined == pc \in {"project", "rename", "save", "done"}
AfterVehicleJoin == pc = "join_acc" \/ Joined

\* the rows of df have distinct values under the columns ks
UniqueOn(df, ks) ==
    \A i, j \in Rows(df) : (\A k \in ks : df.rows[i][k] = df.rows[j][k]) => i = j

SameKeys(l, r, ks) == \A k \in ks : l[k] = r[k]

\* row r of df holds the casualty row s: each casualty column under its own
\* name, or under that name with the casualty suffix
HoldsCasualty(df, r, s) ==
    \A c \in DOMAIN s :
        \/ c \in Cols(df) /\ r[c] = s[c]
        \/ (c \o "_cas") \in Cols(df) /\ r[c \o "_cas"] = s[c]

\* the name a collision column c takes in the joined table
AccName(c) == IF c \in Cols(cas) THEN c \o "_acc" ELSE c

\* the collision-sourced columns of the joined table
AccSourced == {AccName(c) : c \in Cols(acc) \ {acc_id}}

\* the names casualty columns take in a joined table
CasNames(ci) == Cols(ci) \cup {c \o "_cas" : c \in Cols(ci)}

HasMatch(s, df, ks) == \E j \in Rows(df) : SameKeys(s, df.rows[j], ks)

(***************************************************************************)
(* C2: when (accident_index, vehicle_reference) is unique in Vehicle and   *)
(* accident_index is unique in Collision, each of the two left joins gives *)
(* exactly as many rows as the Casualty table and its i-th row is the i-th *)
(* Casualty row: none is dropped, duplicated or reordered.                 *)
(***************************************************************************)
C2_JoinKeepsCasualtyRows ==
    AfterVehicleJoin =>
       LET ci == CasIn
           vi == VehIn
           ai == AccIn
       IN  /\ UniqueOn(vi, {veh_id, veh_ref})
                => /\ Len(cas.rows) = Len(ci.rows)
                   /\ \A i \in Rows(ci) : HoldsCasualty(cas, cas.rows[i], ci.rows[i])
           /\ (Joined /\ UniqueOn(vi, {veh_id, veh_ref}) /\ UniqueOn(ai, {acc_id}))
                => /\ Len(joined.rows) = Len(ci.rows)
                   /\ \A i \in Rows(ci) :
                         HoldsCasualty(joined, joined.rows[i], ci.rows[i])

\* a finished run on unique right-hand keys with two casualties of the same
\* key, one casualty without a vehicle and one without a collision
C2_Witness ==
    /\ pc = "done"
    /\ UniqueOn(VehIn, {veh_id, veh_ref}) /\ UniqueOn(AccIn, {acc_id})
    /\ \E i, j \in Rows(CasIn) :
          i # j /\ SameKeys(CasIn.rows[i], CasIn.rows[j], {cas_id, cas_ref})
    /\ \E i \in Rows(CasIn) : ~HasMatch(CasIn.rows[i], VehIn, {veh_id, veh_ref})
    /\ \E i \in Rows(CasIn) : ~HasMatch(CasIn.rows[i], AccIn, {acc_id})
    /\ Len(out.rows) = Len(CasIn.rows)

VehicleFields == {"vehicle_type", "sex_of_driver", "age_band_of_driver"}

C1_VehicleFieldsCarried ==
    pc = "done" =>
       LET ci == CasIn
           vi == VehIn
       IN  \A i \in Rows(ci), j \in Rows(vi) :
              SameKeys(ci.rows[i], vi.rows[j], {veh_id, veh_ref}) =>
                 \A f \in VehicleFields \cap Cols(vi) :
                    /\ i \in Rows(out)
                    /\ \E c \in Cols(out) : out.rows[i][c] = vi.rows[j][f]

(***************************************************************************)
(* C4: the date field resolves in the priority order date, accident_date:  *)
(* date whenever the Collision table has a date column, wherever it stands,*)
(* accident_date when only that exists, the absent marker when neither.    *)
(***************************************************************************)
C4_DatePriority ==
    pc \notin {"load", "dates"} =>
       date_col = IF "date" \in Cols(AccIn) THEN "date"
                  ELSE IF "accident_date" \in Cols(AccIn) THEN "accident_date"
                  ELSE None

(***************************************************************************)
(* C5: when the Casualty table has the outcome field as severity or        *)
(* casualty_severity, the output has, for every Collision table, exactly   *)
(* one column named severity, holding the casualty outcome values, and no  *)
(* column named casualty_severity.                                         *)
(***************************************************************************)
C5_OneSeverityColumn ==
    (pc = "done" /\ Cols(CasIn) \cap {"severity", "casualty_severity"} # {}) =>
       LET ci == CasIn
       IN  /\ Cardinality({k \in 1..Len(out.columns) : out.columns[k] = "severity"}) = 1
           /\ "casualty_severity" \notin Cols(out)
           /\ \A i \in Rows(out) :
                 /\ i \in Rows(ci)
                 /\ \E c \in Cols(ci) \cap {"severity", "casualty_severity"} :
                       out.rows[i]["severity"] = ci.rows[i][c]

(***************************************************************************)
(* C6 as first stated: if the Vehicle table has no vehicle_type column the *)
(* output has none, for any Casualty and Collision tables.                 *)
(***************************************************************************)
C6_NoVehicleTypeOriginal ==
    (pc = "done" /\ "vehicle_type" \notin Cols(VehIn)) =>
       "vehicle_type" \notin Cols(out)

(***************************************************************************)
(* C6 as amended: if none of the Vehicle, Casualty and Collision tables    *)
(* has a vehicle_type column the output has none; and an optional field is *)
(* in the output only when it is a column of the joined table, with the    *)
(* joined table's values: never a null-filled placeholder.                 *)
(***************************************************************************)
C6_NoPlaceholder ==
    pc = "done" =>
       /\ "vehicle_type" \notin (Cols(VehIn) \cup Cols(CasIn) \cup Cols(AccIn))
             => "vehicle_type" \notin Cols(out)
       /\ \A f \in OptionalFields \cap Cols(out) :
             /\ f \in Cols(joined)
             /\ Len(out.rows) = Len(joined.rows)
             /\ \A i \in Rows(out) : out.rows[i][f] = joined.rows[i][f]

\* a finished run of a release without any vehicle_type column
C6_Witness ==
    /\ pc = "done"
    /\ "vehicle_type" \notin (Cols(VehIn) \cup Cols(CasIn) \cup Cols(AccIn))
    /\ "vehicle_type" \notin Cols(joined)
    /\ Len(out.rows) = Len(CasIn.rows)
    /\ Len(out.columns) >= 2

(***************************************************************************)
(* C7: with a resolved date field every collision row is parsed on its     *)
(* own: a valid day-first text day/month/year gives that date, its year    *)
(* and the first day of its month; the unparseable text gives null date,   *)
(* year and month for that row only; the run does not fail.                *)
(***************************************************************************)
C7_RowsParsedIndependently ==
    pc \notin {"load", "dates"} =>
       LET ai == AccIn
       IN  /\ pc # "failed"
           /\ date_col # None
           /\ \A i \in Rows(ai) :
                 LET x == ai.rows[i][date_col]
                 IN  /\ (x.t = "a/b/c" /\ ValidDate(x.d[3], x.d[2], x.d[1])) =>
                           /\ acc.rows[i][date_col] = Timestamp(x.d[3], x.d[2], x.d[1])
                           /\ acc.rows[i]["year"] = IntCell(x.d[3])
                           /\ acc.rows[i]["month"] = Timestamp(x.d[3], x.d[2], 1)
                     /\ x = NotADate =>
                           /\ acc.rows[i][date_col] = Null
                           /\ acc.rows[i]["year"] = Null
                           /\ acc.rows[i]["month"] = Null

C9_KeyColumnsFirst ==
    pc = "done" =>
       /\ Len(out.columns) >= 2
       /\ out.columns[1] = "accident_index"
       /\ out.columns[2] = "vehicle_reference"

(***************************************************************************)
(* C10 as first stated: when the Collision table has neither a date nor an *)
(* accident_date column the run completes and the output has no date, no   *)
(* year and no month column, whatever other columns the tables have.       *)
(***************************************************************************)
DateFields == {"date", "accident_date", "year", "month"}

KeysPresent ==
    /\ {cas_id, cas_ref} \subseteq Cols(CasIn)
    /\ {veh_id, veh_ref} \subseteq Cols(VehIn)
    /\ acc_id \in Cols(AccIn)

NoDateColumn == Cols(AccIn) \cap {"date", "accident_date"} = {}

C10_NoDateFieldsOriginal ==
    (NoDateColumn /\ KeysPresent) =>
       /\ pc # "failed"
       /\ pc = "done" => Cols(out) \cap DateFields = {}

(***************************************************************************)
(* C10 as amended: when the Collision table has neither a date nor an      *)
(* accident_date column and neither the Casualty nor the Collision table   *)
(* has a column named year or month, the run completes and the output has  *)
(* no date, year or month column; a year or month column of the output     *)
(* holds the values derived from the resolved date field, or, when none    *)
(* resolves, is a column of that name of an input table.                   *)
(***************************************************************************)
C10_NoDateFields ==
    /\ (NoDateColumn /\ KeysPresent
        /\ (Cols(CasIn) \cup Cols(AccIn)) \cap {"year", "month"} = {})
          => /\ pc # "failed"
             /\ pc = "done" => Cols(out) \cap DateFields = {}
    /\ pc = "done" =>
          \A f \in {"year", "month"} \cap Cols(out) :
             IF date_col = None
             THEN f \in Cols(CasIn) \cup Cols(AccIn)
             ELSE /\ f \notin Cols(CasIn)
                  /\ \A i \in Rows(out) :
                        \/ out.rows[i][f] = Null
                        \/ \E j \in Rows(acc) : out.rows[i][f] = acc.rows[j][f]

\* a finished run of a release whose Collision table has no date column and
\* whose Casualty table has a column named date
C10_Witness ==
    /\ pc = "done"
    /\ NoDateColumn
    /\ (Cols(CasIn) \cup Cols(AccIn)) \cap {"year", "month"} = {}
    /\ "date" \in Cols(CasIn)
    /\ Len(out.rows) = Len(CasIn.rows)
====
